---- MODULE Spec2Model ----
(***************************************************************************)
(* Model of app/discovery/events.go: EventNotif, which lists the running   *)
(* containers once at construction (snapshot), then listens to the docker  *)
(* event feed in a goroutine, and publishes the filtered, renamed events   *)
(* to a buffered channel.                                                  *)
(*                                                                         *)
(* Go strings are sequences of one-character strings, so that the regular  *)
(* expressions and strings.TrimPrefix are computed character by character. *)
(***************************************************************************)
EXTENDS Integers, Sequences, FiniteSets, TLC

(***************************************************************************)
(* Bounds of the model and constants of the program.                       *)
(***************************************************************************)
\* the longest varied listing ListContainers returns
MaxList == 2
\* the number of raw events the feed delivers
MaxFeed == 2
\* make(chan Event, 100)
ChanCap == 100

(***************************************************************************)
(* String helpers.                                                         *)
(***************************************************************************)
Digits == {"0", "1", "2", "3", "4", "5", "6", "7", "8", "9"}

\* the least and the greatest element of a non-empty set of integers
MinOf(S) == CHOOSE x \in S : \A y \in S : x <= y
MaxOf(S) == CHOOSE x \in S : \A y \in S : x >= y

\* strings.TrimPrefix(s, "/")
TrimPrefix(s) == IF Len(s) > 0 /\ s[1] = "/" THEN Tail(s) ELSE s

\* the end of the line of s that position i is on ('.' matches no newline)
LineEnd(s, i) ==
    LET nl == {k \in i..Len(s) : s[k] = "\n"}
    IN  IF nl = {} THEN Len(s) ELSE MinOf(nl) - 1

\* the start of the line of s that position i is on
LineStart(s, i) ==
    LET nl == {k \in 1..(i - 1) : s[k] = "\n"}
    IN  IF nl = {} THEN 1 ELSE MaxOf(nl) + 1

NoNewline(s, a, b) == \A k \in a..b : s[k] # "\n"

\* strings.Join(parts, sep)
RECURSIVE Join(_, _)
Join(parts, sep) ==
    IF Len(parts) = 0 THEN <<>>
    ELSE IF Len(parts) = 1 THEN parts[1]
    ELSE parts[1] \o sep \o Join(Tail(parts), sep)

\* contains(e, s): e is an element of the slice s
contains(e, s) == \E i \in 1..Len(s) : s[i] = e

(***************************************************************************)
(* reGroup: a slash, a lazy group of any characters, a slash.              *)
(* FindStringSubmatch gives the leftmost match, its group ending at the    *)
(* first later slash; <<>> stands for nil.                                 *)
(***************************************************************************)
reGroupFind(s) ==
    LET cands == {p \in (1..Len(s)) \X (1..Len(s)) :
                     /\ p[1] < p[2]
                     /\ s[p[1]] = "/"
                     /\ s[p[2]] = "/"
                     /\ NoNewline(s, p[1] + 1, p[2] - 1)}
    IN  IF cands = {} THEN <<>>
        ELSE LET i == MinOf({p[1] : p \in cands})
                 j == MinOf({p[2] : p \in {q \in cands : q[1] = i}})
             IN  <<SubSeq(s, i, j), SubSeq(s, i + 1, j - 1)>>

(***************************************************************************)
(* reSwarm: a greedy group, a dot, a group of digits, a dot, a greedy      *)
(* group. FindStringSubmatch gives the leftmost match; its first group is  *)
(* greedy, so the dot-digits-dot taken is the last one of the line.        *)
(***************************************************************************)
reSwarmFind(s) ==
    LET n == Len(s)
        \* <<p, q>>: s[p] and s[q] are the two dots around the digits
        cands == {t \in (1..n) \X (1..n) :
                     /\ t[1] + 1 < t[2]
                     /\ s[t[1]] = "."
                     /\ s[t[2]] = "."
                     /\ \A k \in (t[1] + 1)..(t[2] - 1) : s[k] \in Digits}
    IN  IF cands = {} THEN <<>>
        ELSE LET i == MinOf({LineStart(s, t[1]) : t \in cands})
                 p == MaxOf({t[1] : t \in {u \in cands : LineStart(s, u[1]) = i}})
                 q == MinOf({t[2] : t \in {u \in cands : u[1] = p}})
                 e == LineEnd(s, q + 1)
             IN  <<SubSeq(s, i, e), SubSeq(s, i, p - 1),
                   SubSeq(s, p + 1, q - 1), SubSeq(s, q + 1, e)>>

(***************************************************************************)
(* regexp.Compile and MatchString for the patterns of the model: literal   *)
(* characters, '.', a starred character, a leading '^', a trailing '$'.    *)
(* A pattern with an unclosed or unopened parenthesis does not compile.    *)
(***************************************************************************)
RECURSIVE ParenDepth(_, _, _)
\* the nesting depth after s[i..], or -1 once a ')' closes nothing
ParenDepth(s, i, d) ==
    IF d < 0 THEN -1
    ELSE IF i > Len(s) THEN d
    ELSE ParenDepth(s, i + 1, IF s[i] = "(" THEN d + 1
                               ELSE IF s[i] = ")" THEN d - 1 ELSE d)

\* regexp.Compile(p) returns no error
Compiles(p) == ParenDepth(p, 1, 0) = 0

RECURSIVE MatchHere(_, _, _, _)
RECURSIVE MatchStar(_, _, _, _, _)
\* the pattern re[i..] matches a prefix of text[j..]
MatchHere(re, i, text, j) ==
    IF i > Len(re) THEN TRUE
    ELSE IF i < Len(re) /\ re[i + 1] = "*"
         THEN MatchStar(re[i], re, i + 2, text, j)
    ELSE IF re[i] = "$" /\ i = Len(re) THEN j > Len(text)
    ELSE IF j <= Len(text) /\ ((re[i] = "." /\ text[j] # "\n") \/ re[i] = text[j])
         THEN MatchHere(re, i + 1, text, j + 1)
    ELSE FALSE

\* c* followed by re[i..] matches a prefix of text[j..]
MatchStar(c, re, i, text, j) ==
    \/ MatchHere(re, i, text, j)
    \/ /\ j <= Len(text)
       /\ (c = "." /\ text[j] # "\n") \/ c = text[j]
       /\ MatchStar(c, re, i, text, j + 1)

\* (*Regexp).MatchString(text): the pattern matches somewhere in text
MatchString(re, text) ==
    IF Len(re) > 0 /\ re[1] = "^" THEN MatchHere(re, 2, text, 1)
    ELSE \E j \in 1..(Len(text) + 1) : MatchHere(re, 1, text, j)

\* a *regexp.Regexp: nil, or the compiled pattern
NilRegexp == [nil |-> TRUE, pat |-> <<>>]
Regexp(p) == [nil |-> FALSE, pat |-> p]

(***************************************************************************)
(* Name and group resolution.                                              *)
(***************************************************************************)
\* a Go map read: the value, or "" when the key is missing
MapGet(m, k) == IF k \in DOMAIN m THEN m[k] ELSE <<>>

EmptyMap == [k \in {} |-> <<>>]

\* buildContainerName with the label consulted ahead of the swarm form
buildContainerNameLabelFirst(labels, containerName) ==
    LET r == reSwarmFind(containerName)
    IN  IF /\ "logger.container.name" \in DOMAIN labels
           /\ labels["logger.container.name"] # <<>>
        THEN labels["logger.container.name"]
        ELSE IF Len(r) = 4 THEN Join(<<r[2], r[3]>>, <<"-">>)
        ELSE containerName

buildContainerName(labels, containerName) ==
    LET r == reSwarmFind(containerName)
        result ==
            IF Len(r) = 4 THEN <<r[2], r[3]>>
            ELSE IF /\ "logger.container.name" \in DOMAIN labels
                    /\ labels["logger.container.name"] # <<>>
                 THEN <<labels["logger.container.name"]>>
            ELSE <<>>
    IN  IF Len(result) > 0 THEN Join(result, <<"-">>) ELSE containerName

buildGroupName(labels, defaultValue) ==
    IF /\ "logger.group.name" \in DOMAIN labels
       /\ labels["logger.group.name"] # <<>>
    THEN labels["logger.group.name"]
    ELSE defaultValue

\* group taking the text ahead of the first slash
groupFirstSegment(image) ==
    LET sl == {k \in 1..Len(image) : image[k] = "/"}
    IN  IF sl = {} THEN <<>> ELSE SubSeq(image, 1, MinOf(sl) - 1)

\* (e *EventNotif) group(image)
group(image) ==
    LET r == reGroupFind(image)
    IN  IF Len(r) = 2 THEN r[2] ELSE <<>>

(***************************************************************************)
(* The inclusion policy of a notifier e.                                   *)
(***************************************************************************)
\* isAllowed with the exclude list consulted ahead of everything else
isAllowedExcludesFirst(e, containerName) ==
    IF contains(containerName, e.excludes) THEN FALSE
    ELSE IF ~e.includesRegexp.nil
         THEN MatchString(e.includesRegexp.pat, containerName)
    ELSE IF ~e.excludesRegexp.nil
         THEN ~MatchString(e.excludesRegexp.pat, containerName)
    ELSE IF Len(e.includes) > 0 THEN contains(containerName, e.includes)
    ELSE TRUE

isAllowed(e, containerName) ==
    IF ~e.includesRegexp.nil THEN MatchString(e.includesRegexp.pat, containerName)
    ELSE IF ~e.excludesRegexp.nil
         THEN ~MatchString(e.excludesRegexp.pat, containerName)
    ELSE IF Len(e.includes) > 0 THEN contains(containerName, e.includes)
    ELSE IF contains(containerName, e.excludes) THEN FALSE
    ELSE TRUE

(***************************************************************************)
(* time.Unix(sec, nsec): nsec outside [0, 1e9) is carried into sec.        *)
(***************************************************************************)
Unix(sec, nsec) ==
    [sec |-> sec + (nsec \div 1000000000), nsec |-> nsec % 1000000000]

upStatuses == <<"start", "restart">>
downStatuses == <<"die", "destroy", "stop", "pause">>

\* the Event emitRunningContainers builds for the listed container c
SnapshotEvent(c) ==
    [ContainerID   |-> c.ID,
     ContainerName |-> buildContainerName(c.Labels, TrimPrefix(c.Names[1])),
     Group         |-> buildGroupName(c.Labels, group(c.Image)),
     TS            |-> Unix(c.Created \div 1000, 0),
     Status        |-> TRUE]

\* LiveEvent reporting every transition as a start
LiveEventStarted(d) ==
    [ContainerID   |-> d.ID,
     ContainerName |-> buildContainerName(d.Attributes,
                           TrimPrefix(MapGet(d.Attributes, "name"))),
     Group         |-> buildGroupName(d.Attributes, group(d.From)),
     TS            |-> Unix(d.Time \div 1000, d.TimeNano),
     Status        |-> TRUE]

\* LiveEvent with the name attribute taken as it comes
LiveEventNoTrim(d) ==
    [ContainerID   |-> d.ID,
     ContainerName |-> buildContainerName(d.Attributes,
                           MapGet(d.Attributes, "name")),
     Group         |-> buildGroupName(d.Attributes, group(d.From)),
     TS            |-> Unix(d.Time \div 1000, d.TimeNano),
     Status        |-> contains(d.Status, upStatuses)]

\* the Event activate builds for the raw event d
LiveEvent(d) ==
    [ContainerID   |-> d.ID,
     ContainerName |-> buildContainerName(d.Attributes,
                           TrimPrefix(MapGet(d.Attributes, "name"))),
     Group         |-> buildGroupName(d.Attributes, group(d.From)),
     TS            |-> Unix(d.Time \div 1000, d.TimeNano),
     Status        |-> contains(d.Status, upStatuses)]

\* activate's two filters ahead of the policy: the type, then the status
Relevant(d) ==
    /\ d.Type = "container"
    /\ contains(d.Status, upStatuses) \/ contains(d.Status, downStatuses)

(***************************************************************************)
(* The inputs: names, images, containers, raw events, configurations.      *)
(***************************************************************************)
sWorker == <<"w", "o", "r", "k", "e", "r">>
sApi == <<"a", "p", "i">>
sWeb2 == <<"w", "e", "b", "-", "2">>
sJob == <<"j", "o", "b">>
sFront == <<"f", "r", "o", "n", "t">>
sOps == <<"o", "p", "s">>
\* /web.2.xyz
sSwarmRaw == <<"/", "w", "e", "b", ".", "2", ".", "x", "y", "z">>
\* group/worker:v1
imgWorker == <<"g", "r", "o", "u", "p", "/">> \o sWorker \o <<":", "v", "1">>
\* reg/sys/api:v1
imgApi == <<"r", "e", "g", "/", "s", "y", "s", "/">> \o sApi \o <<":", "v", "1">>
\* myorg/api:latest
imgWeb == <<"m", "y", "o", "r", "g", "/">> \o sApi
              \o <<":", "l", "a", "t", "e", "s", "t">>

\* docker.APIContainers
cWorker == [ID |-> 1, Names |-> << <<"/">> \o sWorker >>, Labels |-> EmptyMap,
            Image |-> imgWorker, Created |-> 1000]
cApi == [ID |-> 2, Names |-> << <<"/">> \o sApi >>,
         Labels |-> [k \in {"logger.group.name"} |-> sOps],
         Image |-> imgApi, Created |-> 2500]
cWeb == [ID |-> 3, Names |-> <<sSwarmRaw>>,
         Labels |-> [k \in {"logger.container.name"} |-> sFront],
         Image |-> imgWeb, Created |-> 1000]
\* a listed container with no name
cNoName == [ID |-> 4, Names |-> <<>>, Labels |-> EmptyMap,
            Image |-> imgApi, Created |-> 1000]
\* the i-th replica of a large fleet
Replica(i) == [ID |-> 100 + i, Names |-> << <<"/">> \o sJob >>, Labels |-> EmptyMap,
               Image |-> imgApi, Created |-> 1000]

Containers == {cWorker, cApi, cWeb, cNoName}

\* the sequences of length n of distinct elements of S
RECURSIVE DistinctSeqs(_, _)
DistinctSeqs(S, n) ==
    IF n = 0 THEN {<<>>}
    ELSE {s \in {Append(q, x) : q \in DistinctSeqs(S, n - 1), x \in S} :
             \A i, j \in 1..Len(s) : i # j => s[i] # s[j]}

\* a fleet of n replicas
Burst(n) == [i \in 1..n |-> Replica(i)]

\* what ListContainers may return: a short varied listing
Listings == UNION {DistinctSeqs(Containers, n) : n \in 0..MaxList}

\* what ListContainers may return on a large host: nothing, one container,
\* a fleet that fills the channel, or one more
FleetListings == {<<>>, <<cWorker>>, Burst(ChanCap), Burst(ChanCap + 1)}

\* docker.APIEvents (Actor.ID and Actor.Attributes flattened)
eStartWorker == [Type |-> "container", Status |-> "start", ID |-> 1,
                 Attributes |-> [k \in {"name"} |-> <<"/">> \o sWorker],
                 From |-> imgWorker, Time |-> 5000, TimeNano |-> 1500000000]
eStopWorker == [Type |-> "container", Status |-> "stop", ID |-> 1,
                Attributes |-> [k \in {"name"} |-> <<"/">> \o sWorker],
                From |-> imgWorker, Time |-> 6000, TimeNano |-> 0]
eNetStart == [Type |-> "network", Status |-> "start", ID |-> 9,
              Attributes |-> [k \in {"name"} |-> sApi],
              From |-> <<>>, Time |-> 6000, TimeNano |-> 0]
eCreateApi == [Type |-> "container", Status |-> "create", ID |-> 2,
               Attributes |-> [k \in {"name"} |-> sApi],
               From |-> imgApi, Time |-> 7000, TimeNano |-> 0]
eRestartWeb == [Type |-> "container", Status |-> "restart", ID |-> 3,
                Attributes |-> [k \in {"name", "logger.container.name"} |->
                                   IF k = "name" THEN Tail(sSwarmRaw) ELSE sFront],
                From |-> imgWeb, Time |-> 7000, TimeNano |-> 0]

RawEvents == {eStartWorker, eStopWorker, eNetStart, eCreateApi, eRestartWeb}

\* the arguments of NewEventNotif
Config(ex, inc, incP, exP) ==
    [excludes |-> ex, includes |-> inc, includesPattern |-> incP,
     excludesPattern |-> exP]

pBad == <<"(">>
pStartsW == <<"^", "w">>
pApi == <<"a", "p", "*", "i", "$">>

Configs ==
    {Config(<<>>, <<>>, <<>>, <<>>),
     Config(<<sWorker>>, <<>>, <<>>, <<>>),
     Config(<<sWeb2>>, <<sWeb2, sApi>>, <<>>, <<>>),
     Config(<<sWorker>>, <<>>, pStartsW, <<>>),
     Config(<<>>, <<sWorker>>, <<>>, pApi),
     Config(<<>>, <<>>, pBad, <<>>),
     Config(<<>>, <<>>, <<>>, pBad),
     Config(<<>>, <<>>, pStartsW, pBad)}

(***************************************************************************)
(* The state.                                                              *)
(***************************************************************************)
VARIABLES
    cfg,            \* the arguments NewEventNotif was called with
    proc,           \* the process: "running", "exited" (log.Fatalf), "panicked"
    ctor,           \* where NewEventNotif is
    ctorErr,        \* the error NewEventNotif returned, "" if none
    res,            \* the EventNotif under construction (its policy fields)
    eventsCh,       \* res.eventsCh: the buffered events not yet read
    containers,     \* emitRunningContainers: the listing
    idx,            \* emitRunningContainers: the next container of the loop
    listener,       \* where the goroutine running activate is
    feed,           \* dockerEventsCh: "none", "open", "closed"
    pending,        \* activate: the event it is about to write
    feedLog,        \* history: the raw events activate received
    written,        \* history: every write to eventsCh, with its origin
    delivered,      \* history: the events the consumer read
    listCalls,      \* history: the calls of ListContainers
    subscribeCalls, \* history: the calls of AddEventListener
    subscribeFailed, \* history: AddEventListener returned an error
    listFailed,     \* history: ListContainers returned an error
    probe,          \* the last direct call of a pure function, with its result
    missed          \* history: the transitions between listing and subscription

vars == <<cfg, proc, ctor, ctorErr, res, eventsCh, containers, idx, listener,
          feed, pending, feedLog, written, delivered, listCalls,
          subscribeCalls, subscribeFailed, listFailed, probe, missed>>

NoNotif == [excludes |-> <<>>, includes |-> <<>>,
            includesRegexp |-> NilRegexp, excludesRegexp |-> NilRegexp]
NoProbe == [fn |-> "none", arg |-> <<>>, out |-> FALSE]
NoEvent == [ContainerID |-> 0, ContainerName |-> <<>>, Group |-> <<>>,
            TS |-> Unix(0, 0), Status |-> FALSE]

Init ==
    /\ cfg \in Configs
    /\ proc = "running"
    /\ ctor = "init"
    /\ ctorErr = ""
    /\ res = NoNotif
    /\ eventsCh = <<>>
    /\ containers = <<>>
    /\ idx = 1
    /\ listener = "idle"
    /\ feed = "none"
    /\ pending = NoEvent
    /\ feedLog = <<>>
    /\ written = <<>>
    /\ delivered = <<>>
    /\ listCalls = 0
    /\ subscribeCalls = 0
    /\ subscribeFailed = FALSE
    /\ listFailed = FALSE
    /\ probe = NoProbe
    /\ missed = <<>>

(***************************************************************************)
(* NewEventNotif.                                                          *)
(***************************************************************************)
\* a write to the buffered channel ch, which has room
ChanSend(ch, ev) == Append(ch, ev)

\* NewEventNotifCompile with the goroutine started ahead of the snapshot
NewEventNotifCompileEarlyGo ==
    /\ proc = "running"
    /\ ctor = "init"
    /\ IF \/ cfg.includesPattern # <<>> /\ ~Compiles(cfg.includesPattern)
          \/ cfg.excludesPattern # <<>> /\ ~Compiles(cfg.excludesPattern)
       THEN /\ ctor' = "failed"
            /\ ctorErr' = "failed to compile pattern"
            /\ UNCHANGED <<res, listener>>
       ELSE /\ ctor' = "list"
            /\ ctorErr' = ""
            /\ listener' = "subscribe"
            /\ res' = [excludes |-> cfg.excludes,
                       includes |-> cfg.includes,
                       includesRegexp |->
                           IF cfg.includesPattern # <<>>
                           THEN Regexp(cfg.includesPattern) ELSE NilRegexp,
                       excludesRegexp |->
                           IF cfg.excludesPattern # <<>>
                           THEN Regexp(cfg.excludesPattern) ELSE NilRegexp]
    /\ UNCHANGED <<cfg, proc, eventsCh, containers, idx, feed,
                   pending, feedLog, written, delivered, listCalls,
                   subscribeCalls, subscribeFailed, listFailed, probe, missed>>

\* NewEventNotifCompile with the error of the second Compile dropped
NewEventNotifCompileNoCheck ==
    /\ proc = "running"
    /\ ctor = "init"
    /\ IF cfg.includesPattern # <<>> /\ ~Compiles(cfg.includesPattern)
       THEN /\ ctor' = "failed"
            /\ ctorErr' = "failed to compile includesPattern"
            /\ UNCHANGED res
       ELSE /\ ctor' = "list"
            /\ ctorErr' = ""
            /\ res' = [excludes |-> cfg.excludes,
                       includes |-> cfg.includes,
                       includesRegexp |->
                           IF cfg.includesPattern # <<>>
                           THEN Regexp(cfg.includesPattern) ELSE NilRegexp,
                       excludesRegexp |->
                           IF cfg.excludesPattern # <<>> /\ Compiles(cfg.excludesPattern)
                           THEN Regexp(cfg.excludesPattern) ELSE NilRegexp]
    /\ UNCHANGED <<cfg, proc, eventsCh, containers, idx, listener, feed,
                   pending, feedLog, written, delivered, listCalls,
                   subscribeCalls, subscribeFailed, listFailed, probe, missed>>

\* lines 46-70: compile the patterns, build the notifier
NewEventNotifCompile ==
    /\ proc = "running"
    /\ ctor = "init"
    /\ IF cfg.includesPattern # <<>> /\ ~Compiles(cfg.includesPattern)
       THEN /\ ctor' = "failed"
            /\ ctorErr' = "failed to compile includesPattern"
            /\ UNCHANGED res
       ELSE IF cfg.excludesPattern # <<>> /\ ~Compiles(cfg.excludesPattern)
       THEN /\ ctor' = "failed"
            /\ ctorErr' = "failed to compile excludesPattern"
            /\ UNCHANGED res
       ELSE /\ ctor' = "list"
            /\ ctorErr' = ""
            /\ res' = [excludes |-> cfg.excludes,
                       includes |-> cfg.includes,
                       includesRegexp |->
                           IF cfg.includesPattern # <<>>
                           THEN Regexp(cfg.includesPattern) ELSE NilRegexp,
                       excludesRegexp |->
                           IF cfg.excludesPattern # <<>>
                           THEN Regexp(cfg.excludesPattern) ELSE NilRegexp]
    /\ UNCHANGED <<cfg, proc, eventsCh, containers, idx, listener, feed,
                   pending, feedLog, written, delivered, listCalls,
                   subscribeCalls, subscribeFailed, listFailed, probe, missed>>

\* ListContainers with its error dropped: an empty listing, and on with it
ListContainersIgnoreErr(L) ==
    /\ proc = "running"
    /\ ctor = "list"
    /\ listCalls' = listCalls + 1
    /\ \/ /\ listFailed' = TRUE
          /\ containers' = <<>>
          /\ idx' = 1
          /\ ctor' = "emit"
          /\ UNCHANGED ctorErr
       \/ \E l \in L :
            /\ containers' = l
            /\ idx' = 1
            /\ ctor' = "emit"
            /\ UNCHANGED <<ctorErr, listFailed>>
    /\ UNCHANGED <<cfg, proc, res, eventsCh, listener, feed, pending, feedLog,
                   written, delivered, subscribeCalls, subscribeFailed, probe,
                   missed>>

\* lines 73, 132-136: emitRunningContainers calls ListContainers, which fails or
\* returns the listing
ListContainers(L) ==
    /\ proc = "running"
    /\ ctor = "list"
    /\ listCalls' = listCalls + 1
    /\ \/ /\ listFailed' = TRUE
          /\ ctor' = "failed"
          /\ ctorErr' = "failed to emit containers"
          /\ UNCHANGED <<containers, idx>>
       \/ \E l \in L :
            /\ containers' = l
            /\ idx' = 1
            /\ ctor' = "emit"
            /\ UNCHANGED <<ctorErr, listFailed>>
    /\ UNCHANGED <<cfg, proc, res, eventsCh, listener, feed, pending, feedLog,
                   written, delivered, subscribeCalls, subscribeFailed, probe,
                   missed>>

\* EmitContainer with the policy asked about the raw name
EmitContainerRawName ==
    /\ proc = "running"
    /\ ctor = "emit"
    /\ idx <= Len(containers)
    /\ LET c == containers[idx]
       IN  IF Len(c.Names) = 0
           THEN /\ proc' = "panicked"
                /\ ctor' = "panicked"
                /\ UNCHANGED <<idx, eventsCh, written>>
           ELSE IF ~isAllowed(res, TrimPrefix(c.Names[1]))
           THEN /\ idx' = idx + 1
                /\ UNCHANGED <<proc, ctor, eventsCh, written>>
           ELSE /\ Len(eventsCh) < ChanCap
                /\ eventsCh' = ChanSend(eventsCh, SnapshotEvent(c))
                /\ written' = Append(written, [src |-> "snapshot", n |-> idx,
                                               ev |-> SnapshotEvent(c)])
                /\ idx' = idx + 1
                /\ UNCHANGED <<proc, ctor>>
    /\ UNCHANGED <<cfg, ctorErr, res, containers, listener, feed, pending,
                   feedLog, delivered, listCalls, subscribeCalls,
                   subscribeFailed, listFailed, probe, missed>>

\* lines 138-154: one iteration of the loop over the listing; the write blocks
\* while the channel is full, and Names[0] of an empty Names panics
EmitContainer ==
    /\ proc = "running"
    /\ ctor = "emit"
    /\ idx <= Len(containers)
    /\ LET c == containers[idx]
       IN  IF Len(c.Names) = 0
           THEN /\ proc' = "panicked"
                /\ ctor' = "panicked"
                /\ UNCHANGED <<idx, eventsCh, written>>
           ELSE IF ~isAllowed(res, SnapshotEvent(c).ContainerName)
           THEN /\ idx' = idx + 1
                /\ UNCHANGED <<proc, ctor, eventsCh, written>>
           ELSE /\ Len(eventsCh) < ChanCap
                /\ eventsCh' = ChanSend(eventsCh, SnapshotEvent(c))
                /\ written' = Append(written, [src |-> "snapshot", n |-> idx,
                                               ev |-> SnapshotEvent(c)])
                /\ idx' = idx + 1
                /\ UNCHANGED <<proc, ctor>>
    /\ UNCHANGED <<cfg, ctorErr, res, containers, listener, feed, pending,
                   feedLog, delivered, listCalls, subscribeCalls,
                   subscribeFailed, listFailed, probe, missed>>

\* NewEventNotifReturn without the go statement
NewEventNotifReturnNoGo ==
    /\ proc = "running"
    /\ ctor = "emit"
    /\ idx > Len(containers)
    /\ ctor' = "returned"
    /\ UNCHANGED <<cfg, proc, ctorErr, res, eventsCh, containers, idx, feed,
                   listener, pending, feedLog, written, delivered, listCalls,
                   subscribeCalls, subscribeFailed, listFailed, probe, missed>>

\* lines 155-156, 77-81: the loop is over; start the goroutine and return
NewEventNotifReturn ==
    /\ proc = "running"
    /\ ctor = "emit"
    /\ idx > Len(containers)
    /\ listener' = "subscribe"
    /\ ctor' = "returned"
    /\ UNCHANGED <<cfg, proc, ctorErr, res, eventsCh, containers, idx, feed,
                   pending, feedLog, written, delivered, listCalls,
                   subscribeCalls, subscribeFailed, listFailed, probe, missed>>

(***************************************************************************)
(* activate, in its goroutine.                                             *)
(***************************************************************************)
\* ActivateSubscribe with the failure logged and the loop entered all the same
ActivateSubscribeNotFatal ==
    /\ proc = "running"
    /\ listener = "subscribe"
    /\ subscribeCalls' = subscribeCalls + 1
    /\ \/ /\ subscribeFailed' = TRUE
          /\ listener' = "recv"
          /\ UNCHANGED <<proc, feed>>
       \/ /\ listener' = "recv"
          /\ feed' = "open"
          /\ UNCHANGED <<subscribeFailed, proc>>
    /\ UNCHANGED <<cfg, ctor, ctorErr, res, eventsCh, containers, idx, pending,
                   feedLog, written, delivered, listCalls, listFailed, probe,
                   missed>>

\* ActivateSubscribe with a feed that replays what happened before it
ActivateSubscribeReplay ==
    /\ proc = "running"
    /\ listener = "subscribe"
    /\ subscribeCalls' = subscribeCalls + 1
    /\ \/ /\ subscribeFailed' = TRUE
          /\ proc' = "exited"
          /\ UNCHANGED <<listener, feed, eventsCh, written>>
       \/ /\ listener' = "recv"
          /\ feed' = "open"
          /\ IF Len(missed) > 0 /\ Len(eventsCh) < ChanCap
             THEN /\ eventsCh' = ChanSend(eventsCh, LiveEvent(missed[1]))
                  /\ written' = Append(written, [src |-> "live", n |-> 0,
                                                 ev |-> LiveEvent(missed[1])])
             ELSE UNCHANGED <<eventsCh, written>>
          /\ UNCHANGED <<subscribeFailed, proc>>
    /\ UNCHANGED <<cfg, ctor, ctorErr, res, containers, idx, pending,
                   feedLog, delivered, listCalls, listFailed, probe, missed>>

\* lines 92-95: AddEventListener fails, which is fatal, or the feed is open
ActivateSubscribe ==
    /\ proc = "running"
    /\ listener = "subscribe"
    /\ subscribeCalls' = subscribeCalls + 1
    /\ \/ /\ subscribeFailed' = TRUE
          /\ proc' = "exited"
          /\ UNCHANGED <<listener, feed>>
       \/ /\ listener' = "recv"
          /\ feed' = "open"
          /\ UNCHANGED <<subscribeFailed, proc>>
    /\ UNCHANGED <<cfg, ctor, ctorErr, res, eventsCh, containers, idx, pending,
                   feedLog, written, delivered, listCalls, listFailed, probe,
                   missed>>

\* ActivateRecv with "pause" missing from the down statuses
ActivateRecvNoPause(d) ==
    /\ proc = "running"
    /\ listener = "recv"
    /\ feed = "open"
    /\ Len(feedLog) < MaxFeed
    /\ feedLog' = Append(feedLog, d)
    /\ IF /\ Relevant(d)
          /\ d.Status # "pause"
          /\ isAllowed(res, LiveEvent(d).ContainerName)
       THEN /\ pending' = LiveEvent(d)
            /\ listener' = "send"
       ELSE UNCHANGED <<pending, listener>>
    /\ UNCHANGED <<cfg, proc, ctor, ctorErr, res, eventsCh, containers, idx,
                   feed, written, delivered, listCalls, subscribeCalls,
                   subscribeFailed, listFailed, probe, missed>>

\* lines 100-124: the feed hands over the raw event d; activate drops it or
\* builds the event it will write
ActivateRecv(d) ==
    /\ proc = "running"
    /\ listener = "recv"
    /\ feed = "open"
    /\ Len(feedLog) < MaxFeed
    /\ feedLog' = Append(feedLog, d)
    /\ IF Relevant(d) /\ isAllowed(res, LiveEvent(d).ContainerName)
       THEN /\ pending' = LiveEvent(d)
            /\ listener' = "send"
       ELSE UNCHANGED <<pending, listener>>
    /\ UNCHANGED <<cfg, proc, ctor, ctorErr, res, eventsCh, containers, idx,
                   feed, written, delivered, listCalls, subscribeCalls,
                   subscribeFailed, listFailed, probe, missed>>

\* ActivateSend with an event for an already started container suppressed
ActivateSendDedup ==
    /\ proc = "running"
    /\ listener = "send"
    /\ Len(eventsCh) < ChanCap
    /\ IF \E i \in 1..Len(written) :
             /\ written[i].ev.ContainerID = pending.ContainerID
             /\ written[i].ev.Status = pending.Status
       THEN UNCHANGED <<eventsCh, written>>
       ELSE /\ eventsCh' = ChanSend(eventsCh, pending)
            /\ written' = Append(written, [src |-> "live", n |-> Len(feedLog),
                                           ev |-> pending])
    /\ pending' = NoEvent
    /\ listener' = "recv"
    /\ UNCHANGED <<cfg, proc, ctor, ctorErr, res, containers, idx, feed,
                   feedLog, delivered, listCalls, subscribeCalls,
                   subscribeFailed, listFailed, probe, missed>>

\* ActivateSend as a write that gives up when the channel is full
ActivateSendDropWhenFull ==
    /\ proc = "running"
    /\ listener = "send"
    /\ IF Len(eventsCh) < ChanCap
       THEN /\ eventsCh' = ChanSend(eventsCh, pending)
            /\ written' = Append(written, [src |-> "live", n |-> Len(feedLog),
                                           ev |-> pending])
       ELSE UNCHANGED <<eventsCh, written>>
    /\ pending' = NoEvent
    /\ listener' = "recv"
    /\ UNCHANGED <<cfg, proc, ctor, ctorErr, res, containers, idx, feed,
                   feedLog, delivered, listCalls, subscribeCalls,
                   subscribeFailed, listFailed, probe, missed>>

\* ActivateSend writing its event twice
ActivateSendTwice ==
    /\ proc = "running"
    /\ listener = "send"
    /\ Len(eventsCh) + 2 <= ChanCap
    /\ eventsCh' = ChanSend(ChanSend(eventsCh, pending), pending)
    /\ written' = written \o
                     << [src |-> "live", n |-> Len(feedLog), ev |-> pending],
                        [src |-> "live", n |-> Len(feedLog), ev |-> pending] >>
    /\ pending' = NoEvent
    /\ listener' = "recv"
    /\ UNCHANGED <<cfg, proc, ctor, ctorErr, res, containers, idx, feed,
                   feedLog, delivered, listCalls, subscribeCalls,
                   subscribeFailed, listFailed, probe, missed>>

\* line 125: the write, which blocks while the channel is full
ActivateSend ==
    /\ proc = "running"
    /\ listener = "send"
    /\ Len(eventsCh) < ChanCap
    /\ eventsCh' = ChanSend(eventsCh, pending)
    /\ written' = Append(written, [src |-> "live", n |-> Len(feedLog),
                                   ev |-> pending])
    /\ pending' = NoEvent
    /\ listener' = "recv"
    /\ UNCHANGED <<cfg, proc, ctor, ctorErr, res, containers, idx, feed,
                   feedLog, delivered, listCalls, subscribeCalls,
                   subscribeFailed, listFailed, probe, missed>>

\* the docker client closes the listener's channel
FeedClose ==
    /\ proc = "running"
    /\ feed = "open"
    /\ feed' = "closed"
    /\ UNCHANGED <<cfg, proc, ctor, ctorErr, res, eventsCh, containers, idx,
                   listener, pending, feedLog, written, delivered, listCalls,
                   subscribeCalls, subscribeFailed, listFailed, probe, missed>>

\* ActivateFeedClosed subscribing again instead of ending the process
ActivateFeedClosedReconnect ==
    /\ proc = "running"
    /\ listener = "recv"
    /\ feed = "closed"
    /\ listener' = "subscribe"
    /\ feed' = "none"
    /\ UNCHANGED <<cfg, proc, ctor, ctorErr, res, eventsCh, containers, idx,
                   pending, feedLog, written, delivered,
                   listCalls, subscribeCalls, subscribeFailed, listFailed, probe,
                   missed>>

\* lines 100, 127: the range loop ends on the closed channel; log.Fatalf
ActivateFeedClosed ==
    /\ proc = "running"
    /\ listener = "recv"
    /\ feed = "closed"
    /\ proc' = "exited"
    /\ UNCHANGED <<cfg, ctor, ctorErr, res, eventsCh, containers, idx,
                   listener, feed, pending, feedLog, written, delivered,
                   listCalls, subscribeCalls, subscribeFailed, listFailed, probe,
                   missed>>

(***************************************************************************)
(* The consumer, which has the channel once NewEventNotif has returned it. *)
(***************************************************************************)
\* lines 85-87 and a read of the channel by the caller
ConsumerRead ==
    /\ proc = "running"
    /\ ctor = "returned"
    /\ Len(eventsCh) > 0
    /\ delivered' = Append(delivered, Head(eventsCh))
    /\ eventsCh' = Tail(eventsCh)
    /\ UNCHANGED <<cfg, proc, ctor, ctorErr, res, containers, idx, listener,
                   feed, pending, feedLog, written, listCalls, subscribeCalls,
                   subscribeFailed, listFailed, probe, missed>>

\* a step of the program, the collaborator or the consumer, where
\* ListContainers returns a listing of L and the feed delivers up to m raw
\* events of E
Step(L, E, m) ==
    \/ NewEventNotifCompile
    \/ ListContainers(L)
    \/ EmitContainer
    \/ NewEventNotifReturn
    \/ ActivateSubscribe
    \/ \E d \in E : Len(feedLog) < m /\ ActivateRecv(d)
    \/ ActivateSend
    \/ FeedClose
    \/ ActivateFeedClosed
    \/ ConsumerRead

Next == Step(Listings, RawEvents, MaxFeed)

Spec == Init /\ [][Next]_vars

(***************************************************************************)
(* The policy alone: every configuration, and isAllowed called directly on *)
(* the notifier it builds.                                                 *)
(***************************************************************************)
PolicyNames == {sWorker, sApi, sWeb2, sJob, sFront, <<>>}

AllConfigs ==
    {Config(ex, inc, incP, exP) :
        ex \in {<<>>, <<sWorker>>, <<sWorker, sApi>>},
        inc \in {<<>>, <<sWeb2, sApi>>, <<sWorker>>},
        incP \in {<<>>, pStartsW, pApi, pBad},
        exP \in {<<>>, pStartsW, pApi, pBad}}

PolicyInit ==
    /\ cfg \in AllConfigs
    /\ proc = "running"
    /\ ctor = "init"
    /\ ctorErr = ""
    /\ res = NoNotif
    /\ eventsCh = <<>>
    /\ containers = <<>>
    /\ idx = 1
    /\ listener = "idle"
    /\ feed = "none"
    /\ pending = NoEvent
    /\ feedLog = <<>>
    /\ written = <<>>
    /\ delivered = <<>>
    /\ listCalls = 0
    /\ subscribeCalls = 0
    /\ subscribeFailed = FALSE
    /\ listFailed = FALSE
    /\ probe = NoProbe
    /\ missed = <<>>

\* lines 167-182: isAllowed(name) on the notifier NewEventNotif built
IsAllowedCall(name) ==
    /\ ctor = "list"
    /\ probe' = [fn |-> "isAllowed", arg |-> name, out |-> isAllowed(res, name)]
    /\ UNCHANGED <<cfg, proc, ctor, ctorErr, res, eventsCh, containers, idx,
                   listener, feed, pending, feedLog, written, delivered,
                   listCalls, subscribeCalls, subscribeFailed, listFailed,
                   missed>>

PolicyNext ==
    \/ NewEventNotifCompile
    \/ \E name \in PolicyNames : IsAllowedCall(name)

SpecPolicy == PolicyInit /\ [][PolicyNext]_vars

\* the elements of a slice
Range(q) == {q[i] : i \in 1..Len(q)}

\* the decision the precedence order gives for name under the arguments c
Precedence(c, name) ==
    IF c.includesPattern # <<>> THEN MatchString(c.includesPattern, name)
    ELSE IF c.excludesPattern # <<>> THEN ~MatchString(c.excludesPattern, name)
    ELSE IF c.includes # <<>> THEN name \in Range(c.includes)
    ELSE IF name \in Range(c.excludes) THEN FALSE
    ELSE TRUE

\* C1: isAllowed(name) is the include pattern's match if one is configured,
\* else the negated exclude pattern's match if one is configured, else
\* membership in the include list if it is non-empty, else false for a name
\* in the exclude list, else true. A name matching the include pattern is
\* allowed even when it is in the exclude list, and with a non-empty
\* include list (and no pattern) the exclude list changes nothing.
C1_PolicyPrecedence ==
    probe.fn = "isAllowed" =>
        /\ probe.out = Precedence(cfg, probe.arg)
        /\ (/\ cfg.includesPattern # <<>>
            /\ MatchString(cfg.includesPattern, probe.arg)
            /\ probe.arg \in Range(cfg.excludes)) => probe.out
        /\ (/\ cfg.includesPattern = <<>>
            /\ cfg.excludesPattern = <<>>
            /\ cfg.includes # <<>>)
               => probe.out = (probe.arg \in Range(cfg.includes))

\* C1 witness: worker matches the include pattern, is in the exclude list,
\* and was allowed
C1_Witness ==
    /\ probe.fn = "isAllowed"
    /\ probe.arg = sWorker
    /\ cfg.includesPattern = pStartsW
    /\ sWorker \in Range(cfg.excludes)
    /\ probe.out

(***************************************************************************)
(* The notifier's whole life: properties of its histories.                 *)
(***************************************************************************)
\* the events written so far, in the order of their writes
WrittenEvents == [i \in 1..Len(written) |-> written[i].ev]

\* C2: every snapshot write precedes every live write; the snapshot writes
\* follow the order of the listing and the live writes the order in which
\* the raw events were received; the consumer reads the events in the order
\* of their writes (what it has read, then what the channel holds, is what
\* was written).
C2_DeliveryOrder ==
    /\ \A i \in 1..(Len(written) - 1) :
          /\ written[i].src = "live" => written[i + 1].src = "live"
          /\ written[i].src = written[i + 1].src => written[i].n < written[i + 1].n
    /\ delivered \o eventsCh = WrittenEvents

\* C2 witness: the consumer has read two snapshot events and then a live one
C2_Witness ==
    /\ Len(delivered) = 3
    /\ written[1].src = "snapshot"
    /\ written[2].src = "snapshot"
    /\ written[3].src = "live"
    /\ delivered[1] # delivered[2]

\* C3 (as claimed): the snapshot phase is never stuck on its write: whenever
\* emitRunningContainers is about to write an allowed container's event,
\* while no consumer has the channel yet, the channel has room.
C3_SnapshotNeverBlocks ==
    (/\ proc = "running"
     /\ ctor = "emit"
     /\ idx <= Len(containers)
     /\ Len(containers[idx].Names) > 0
     /\ isAllowed(res, SnapshotEvent(containers[idx]).ContainerName))
        => Len(eventsCh) < ChanCap

\* the event the snapshot owes the listed container c: its identifier, its
\* resolved name and group, started
Owed(c) ==
    [ContainerID   |-> c.ID,
     ContainerName |-> buildContainerName(c.Labels, TrimPrefix(c.Names[1])),
     Group         |-> buildGroupName(c.Labels, group(c.Image)),
     Status        |-> TRUE]

\* an event without its timestamp
Untimed(ev) ==
    [ContainerID |-> ev.ContainerID, ContainerName |-> ev.ContainerName,
     Group |-> ev.Group, Status |-> ev.Status]

\* the events owed for the first k containers of the listing l under the
\* policy of e: one per container whose resolved name is allowed
RECURSIVE OwedUpTo(_, _, _)
OwedUpTo(e, l, k) ==
    IF k = 0 THEN <<>>
    ELSE IF isAllowed(e, Owed(l[k]).ContainerName)
         THEN Append(OwedUpTo(e, l, k - 1), Owed(l[k]))
    ELSE OwedUpTo(e, l, k - 1)

SnapshotWrites == SelectSeq(written, LAMBDA w : w.src = "snapshot")
LiveWrites == SelectSeq(written, LAMBDA w : w.src = "live")

\* C5: the snapshot writes are exactly one started event, with the
\* identifier, resolved name and resolved group, for each container handled
\* so far whose resolved name the policy allows, and none for the others;
\* once construction has returned, that is the whole listing.
C5_SnapshotExact ==
    /\ ctor \in {"emit", "returned", "panicked"} =>
          [i \in 1..Len(SnapshotWrites) |-> Untimed(SnapshotWrites[i].ev)]
              = OwedUpTo(res, containers, idx - 1)
    /\ ctor = "returned" => idx = Len(containers) + 1
    /\ ctor \in {"init", "list", "failed"} => written = <<>>

\* C5 witness: exclude list {worker}, worker and api listed: one event, api's
C5_Witness ==
    /\ ctor = "returned"
    /\ cfg = Config(<<sWorker>>, <<>>, <<>>, <<>>)
    /\ containers = <<cWorker, cApi>>
    /\ Len(written) = 1
    /\ written[1].ev.ContainerName = sApi
    /\ written[1].ev.Status

\* a pattern argument that is given and does not compile
BadPattern(c) ==
    \/ c.includesPattern # <<>> /\ ~Compiles(c.includesPattern)
    \/ c.excludesPattern # <<>> /\ ~Compiles(c.excludesPattern)

\* C6: with a non-empty pattern that does not compile, construction fails
\* with an error at once: ListContainers is never called, nothing is
\* written, the listener is never started and never subscribes.
C6_BadPatternFails ==
    BadPattern(cfg) =>
        /\ ctor \in {"init", "failed"}
        /\ ctor = "failed" => ctorErr # ""
        /\ listCalls = 0
        /\ written = <<>>
        /\ eventsCh = <<>>
        /\ listener = "idle"
        /\ subscribeCalls = 0
        /\ feed = "none"

\* C6 witness: a valid include pattern, an exclude pattern that does not
\* compile, and construction has failed
C6_Witness ==
    /\ cfg.includesPattern = pStartsW
    /\ cfg.excludesPattern = pBad
    /\ ctor = "failed"

\* C7: when ListContainers fails, construction returns an error and no
\* notifier, nothing was written, and the listener is never started.
C7_ListFailureAborts ==
    listFailed =>
        /\ ctor = "failed"
        /\ ctorErr # ""
        /\ written = <<>>
        /\ eventsCh = <<>>
        /\ delivered = <<>>
        /\ listener = "idle"
        /\ subscribeCalls = 0
        /\ feed = "none"

\* C7 witness: the patterns compiled, the listing was asked for once and failed
C7_Witness ==
    /\ listFailed
    /\ listCalls = 1
    /\ ~res.includesRegexp.nil
    /\ ctor = "failed"

\* C9: when AddEventListener fails the process ends; the listener never
\* reaches its loop, receives nothing and writes no live event.
C9_SubscribeFailureFatal ==
    subscribeFailed =>
        /\ proc = "exited"
        /\ listener = "subscribe"
        /\ feed = "none"
        /\ feedLog = <<>>
        /\ LiveWrites = <<>>

\* C9 witness: the snapshot was written, then the subscription failed
C9_Witness ==
    /\ subscribeFailed
    /\ proc = "exited"
    /\ Len(written) = 2

\* how many elements of the sequence q satisfy T
Count(q, T(_)) == Cardinality({i \in 1..Len(q) : T(q[i])})

\* the live events that were due a write and are past it: all those
\* received, but the last while the listener still holds it
Settled ==
    IF listener = "send" THEN SubSeq(feedLog, 1, Len(feedLog) - 1) ELSE feedLog

\* C10: nothing is deduplicated: the started events written for a container
\* identifier are as many as its allowed appearances in the listing handled
\* so far plus its allowed up transitions received and written, whatever was
\* written before.
C10_NoDeduplication ==
    \A id \in {written[i].ev.ContainerID : i \in 1..Len(written)}
              \cup {feedLog[i].ID : i \in 1..Len(feedLog)} :
        Count(written, LAMBDA w : w.ev.ContainerID = id /\ w.ev.Status)
            = Count(SubSeq(containers, 1, idx - 1),
                    LAMBDA c : /\ c.ID = id
                               /\ isAllowed(res, Owed(c).ContainerName))
              + Count(Settled,
                      LAMBDA d : /\ d.ID = id
                                 /\ d.Type = "container"
                                 /\ d.Status \in {"start", "restart"}
                                 /\ isAllowed(res, LiveEvent(d).ContainerName))

\* C10 witness: worker was listed and then started again: two started events
\* for its identifier, one from the snapshot and one from the listener
C10_Witness ==
    \E i, j \in 1..Len(written) :
        /\ written[i].src = "snapshot"
        /\ written[j].src = "live"
        /\ written[i].ev.ContainerID = written[j].ev.ContainerID
        /\ written[i].ev.Status
        /\ written[j].ev.Status

(***************************************************************************)
(* The listener on its own: every type and status the feed may carry.      *)
(***************************************************************************)
\* the raw events delivered when every status is tried
MaxStatusFeed == 1

Statuses == {"start", "restart", "die", "destroy", "stop", "pause",
             "create", "kill"}

\* whom a raw event is about: Actor.ID, Actor.Attributes and From
Actors ==
    {[ID |-> 1, Attributes |-> [k \in {"name"} |-> <<"/">> \o sWorker],
      From |-> imgWorker],
     [ID |-> 3, Attributes |-> [k \in {"name", "logger.container.name"} |->
                                  IF k = "name" THEN Tail(sSwarmRaw) ELSE sFront],
      From |-> imgWeb]}

AllRawEvents ==
    {[Type |-> t, Status |-> st, ID |-> a.ID, Attributes |-> a.Attributes,
      From |-> a.From, Time |-> 5000, TimeNano |-> 0] :
        t \in {"container", "network"}, st \in Statuses, a \in Actors}

ListenerListings == {<<>>, <<cWorker>>}

ListenerNext == Step(ListenerListings, AllRawEvents, MaxStatusFeed)

SpecListener == Init /\ [][ListenerNext]_vars

\* the raw event d is due an output event: a container's, of a recognized
\* status, its resolved name allowed
Due(d) ==
    /\ d.Type = "container"
    /\ d.Status \in {"start", "restart", "die", "destroy", "stop", "pause"}
    /\ isAllowed(res, LiveEvent(d).ContainerName)

\* C4: a raw event received gets an output event (written, or held by the
\* listener for its write) if and only if its type is "container", its
\* status is one of start, restart, die, destroy, stop, pause, and its
\* resolved name is allowed; it gets at most one, about the same container,
\* with Status true exactly for start and restart and false exactly for die,
\* destroy, stop and pause.
C4_LiveFilter ==
    /\ \A i \in 1..Len(LiveWrites) :
          LET w == LiveWrites[i]
              d == feedLog[w.n]
          IN  /\ Due(d)
              /\ w.ev.ContainerID = d.ID
              /\ w.ev.Status = (d.Status \in {"start", "restart"})
              /\ (~w.ev.Status) = (d.Status \in {"die", "destroy", "stop", "pause"})
    /\ \A k \in 1..Len(feedLog) :
          /\ Count(LiveWrites, LAMBDA w : w.n = k) <= 1
          /\ Due(feedLog[k]) <=>
                \/ Count(LiveWrites, LAMBDA w : w.n = k) = 1
                \/ k = Len(feedLog) /\ listener = "send"
    /\ listener = "send" => pending = LiveEvent(feedLog[Len(feedLog)])

\* C4 witness: a pause of an allowed container was written as a stopped event
C4_Witness ==
    /\ Len(LiveWrites) = 1
    /\ feedLog[LiveWrites[1].n].Status = "pause"
    /\ ~LiveWrites[1].ev.Status

(***************************************************************************)
(* A large host: the listing may fill the channel. The goroutines of the   *)
(* program are scheduled fairly; the consumer and the feed owe nothing.    *)
(***************************************************************************)
FleetConfigs ==
    {Config(<<>>, <<>>, <<>>, <<>>), Config(<<sWorker>>, <<>>, <<>>, <<>>)}

FleetEvents == {eStartWorker, eNetStart}

FleetInit == Init /\ cfg \in FleetConfigs

FleetNext == Step(FleetListings, FleetEvents, MaxFeed)

Fairness ==
    /\ WF_vars(NewEventNotifCompile)
    /\ WF_vars(EmitContainer)
    /\ WF_vars(NewEventNotifReturn)
    /\ WF_vars(ActivateSubscribe)
    /\ WF_vars(ActivateSend)
    /\ WF_vars(ActivateFeedClosed)

SpecFleet == FleetInit /\ [][FleetNext]_vars /\ Fairness

\* once the listener is at its loop with the feed closed, or the process has
\* ended, nothing more is written and nobody subscribes; there is at most
\* one subscription ever
NoLifeAfterFeedEnd ==
    /\ [](subscribeCalls <= 1)
    /\ [][(proc = "exited" \/ (feed = "closed" /\ listener = "recv"))
             => /\ written' = written
                /\ subscribeCalls' = subscribeCalls
                /\ feed' = feed]_vars

\* C8 (as claimed): once the feed is closed the process eventually ends, and
\* the listener neither subscribes again nor writes after seeing the end.
C8_FeedEndAlwaysFatal ==
    /\ (feed = "closed") ~> (proc = "exited")
    /\ NoLifeAfterFeedEnd

\* C8 (amended): the same, provided the consumer keeps reading, so that a
\* listener blocked on its write to a full channel gets to its loop again.
C8_FeedEndFatalIfDrained ==
    /\ WF_vars(ConsumerRead) => ((feed = "closed") ~> (proc = "exited"))
    /\ NoLifeAfterFeedEnd

\* C8 witness: the feed was closed while the listener held an event, and
\* the process has ended with that event written
C8_Witness ==
    /\ proc = "exited"
    /\ feed = "closed"
    /\ Len(LiveWrites) = 1
    /\ Len(delivered) > 0

\* C11: the channel never holds more than its capacity; what was written is
\* what the consumer has read followed by what the channel holds, in order,
\* and every due raw event is written or held for its write; while a writer
\* is blocked on the full channel nothing is written, and the blocked
\* listener receives nothing and keeps its event; once there is room the
\* listener's write completes.
C11_Backpressure ==
    /\ [](Len(eventsCh) <= ChanCap)
    /\ [](delivered \o eventsCh = WrittenEvents)
    /\ [](Len(LiveWrites) + (IF listener = "send" THEN 1 ELSE 0)
             = Count(feedLog, Due))
    /\ [][Len(eventsCh) = ChanCap =>
             /\ written' = written
             /\ listener = "send" =>
                   /\ feedLog' = feedLog
                   /\ pending' = pending
                   /\ listener' = "send"]_vars
    /\ (listener = "send" /\ Len(eventsCh) < ChanCap) ~> (listener = "recv")

\* C11 witness: the listener holds an event and the channel is full
C11_Witness ==
    /\ listener = "send"
    /\ Len(eventsCh) = ChanCap
    /\ proc = "running"

(***************************************************************************)
(* Name and group resolution on their own: the two builders and the two    *)
(* paths that call them, applied to bounded names, label maps and images   *)
(* by a notifier NewEventNotif built.                                      *)
(***************************************************************************)
\* the longest generated raw name and image
MaxNameLen == 4
MaxImageLen == 5

NameChars == {"a", "2", "."}
ImageChars == {"a", "/", ":"}

\* the strings over A of length at most n
RECURSIVE Strings(_, _)
Strings(A, n) ==
    IF n = 0 THEN {<<>>}
    ELSE LET S == Strings(A, n - 1)
         IN  S \cup {Append(t, a) : t \in {u \in S : Len(u) = n - 1}, a \in A}

\* c.Names[0] and Actor.Attributes["name"]: with and without the slash
ResolverNames ==
    LET S == Strings(NameChars, MaxNameLen)
    IN  S \cup {<<"/">> \o t : t \in S} \cup {sSwarmRaw, <<"/">> \o sWorker}

\* c.Image and dockerEvent.From
ResolverImages ==
    Strings(ImageChars, MaxImageLen) \cup {imgWorker, imgApi, imgWeb}

\* c.Labels and Actor.Attributes without the name
ResolverLabels ==
    {EmptyMap,
     [k \in {"logger.container.name"} |-> <<>>],
     [k \in {"logger.container.name"} |-> sFront],
     [k \in {"logger.group.name"} |-> <<>>],
     [k \in {"logger.group.name"} |-> sOps],
     [k \in {"logger.container.name", "logger.group.name"} |->
         IF k = "logger.group.name" THEN sOps ELSE sFront]}

pStartsA == <<"^", "a">>
pEnds2 == <<"2", "$">>

ResolverConfigs ==
    {Config(<<>>, <<>>, <<>>, <<>>),
     Config(<< <<"a">>, sFront >>, <<>>, <<>>, <<>>),
     Config(<<>>, <<>>, pStartsA, <<>>),
     Config(<<>>, <<>>, <<>>, pEnds2)}

ResolverInit ==
    /\ cfg \in ResolverConfigs
    /\ proc = "running"
    /\ ctor = "init"
    /\ ctorErr = ""
    /\ res = NoNotif
    /\ eventsCh = <<>>
    /\ containers = <<>>
    /\ idx = 1
    /\ listener = "idle"
    /\ feed = "none"
    /\ pending = NoEvent
    /\ feedLog = <<>>
    /\ written = <<>>
    /\ delivered = <<>>
    /\ listCalls = 0
    /\ subscribeCalls = 0
    /\ subscribeFailed = FALSE
    /\ listFailed = FALSE
    /\ probe = NoProbe
    /\ missed = <<>>

\* lines 110 and 140: the name either path resolves for a raw name
BuildContainerNameCall(labels, raw) ==
    /\ ctor = "list"
    /\ probe.fn = "none"
    /\ probe' = [fn |-> "buildContainerName",
                 arg |-> [labels |-> labels, raw |-> raw],
                 out |-> buildContainerName(labels, TrimPrefix(raw))]
    /\ UNCHANGED <<cfg, proc, ctor, ctorErr, res, eventsCh, containers, idx,
                   listener, feed, pending, feedLog, written, delivered,
                   listCalls, subscribeCalls, subscribeFailed, listFailed,
                   missed>>

\* lines 111 and 141: the group either path resolves for an image
BuildGroupNameCall(labels, image) ==
    /\ ctor = "list"
    /\ probe.fn = "none"
    /\ probe' = [fn |-> "buildGroupName",
                 arg |-> [labels |-> labels, image |-> image],
                 out |-> buildGroupName(labels, group(image))]
    /\ UNCHANGED <<cfg, proc, ctor, ctorErr, res, eventsCh, containers, idx,
                   listener, feed, pending, feedLog, written, delivered,
                   listCalls, subscribeCalls, subscribeFailed, listFailed,
                   missed>>

\* the listed container and the raw event that carry one name, one label
\* map and one image
ListedAs(raw, labels, image) ==
    [ID |-> 7, Names |-> <<raw>>, Labels |-> labels, Image |-> image,
     Created |-> 1000]
ReportedAs(raw, labels, image) ==
    [Type |-> "container", Status |-> "start", ID |-> 7,
     Attributes |-> [k \in DOMAIN labels \cup {"name"} |->
                        IF k = "name" THEN raw ELSE labels[k]],
     From |-> image, Time |-> 1000, TimeNano |-> 0]

\* what lines 139-142 and lines 110-112 work out for one container
Resolved(raw, labels, image) ==
    LET s == SnapshotEvent(ListedAs(raw, labels, image))
        l == LiveEvent(ReportedAs(raw, labels, image))
    IN  [snapshot |-> [ContainerName |-> s.ContainerName, Group |-> s.Group,
                       allowed |-> isAllowed(res, s.ContainerName)],
         live |-> [ContainerName |-> l.ContainerName, Group |-> l.Group,
                   allowed |-> isAllowed(res, l.ContainerName)]]

\* both paths resolve and filter one container
ResolveCall(raw, labels, image) ==
    /\ ctor = "list"
    /\ probe.fn = "none"
    /\ probe' = [fn |-> "resolve",
                 arg |-> [raw |-> raw, labels |-> labels, image |-> image],
                 out |-> Resolved(raw, labels, image)]
    /\ UNCHANGED <<cfg, proc, ctor, ctorErr, res, eventsCh, containers, idx,
                   listener, feed, pending, feedLog, written, delivered,
                   listCalls, subscribeCalls, subscribeFailed, listFailed,
                   missed>>

\* both paths resolve and filter the same container a second time
ResolveAgain ==
    /\ ctor = "list"
    /\ probe.fn = "resolve"
    /\ probe' = [fn |-> "resolveAgain",
                 arg |-> probe.arg,
                 out |-> Resolved(probe.arg.raw, probe.arg.labels,
                                  probe.arg.image),
                 first |-> probe.out]
    /\ UNCHANGED <<cfg, proc, ctor, ctorErr, res, eventsCh, containers, idx,
                   listener, feed, pending, feedLog, written, delivered,
                   listCalls, subscribeCalls, subscribeFailed, listFailed,
                   missed>>

ResolverNext ==
    \/ NewEventNotifCompile
    \/ /\ probe.fn = "none"
       /\ \E labels \in ResolverLabels, raw \in ResolverNames :
              BuildContainerNameCall(labels, raw)
    \/ /\ probe.fn = "none"
       /\ \E labels \in ResolverLabels, image \in ResolverImages :
              BuildGroupNameCall(labels, image)
    \/ /\ probe.fn = "none"
       /\ \E labels \in ResolverLabels, raw \in ResolverNames,
             image \in {imgWorker, imgApi, imgWeb} :
              ResolveCall(raw, labels, image)
    \/ ResolveAgain

SpecResolver == ResolverInit /\ [][ResolverNext]_vars

\* the ways to read s as a service, a dot, a replica number, a dot and a
\* rest: the pairs of service and number
SwarmForms(s) ==
    {<<SubSeq(s, 1, p[1] - 1), SubSeq(s, p[1] + 1, p[2] - 1)>> :
        p \in {q \in (1..Len(s)) \X (1..Len(s)) :
                  /\ q[1] + 1 < q[2]
                  /\ s[q[1]] = "."
                  /\ s[q[2]] = "."
                  /\ \A k \in (q[1] + 1)..(q[2] - 1) : s[k] \in Digits}}

\* C12: for every label map and raw name, with one leading slash stripped:
\* a name of the swarm form resolves to its service, a dash and its replica
\* number, whatever the name label says; any other name resolves to the
\* name label if that is present and non-empty, and to itself otherwise.
\* /web.2.xyz resolves to web-2.
C12_NamePrecedence ==
    probe.fn = "buildContainerName" =>
        LET name == TrimPrefix(probe.arg.raw)
            label == MapGet(probe.arg.labels, "logger.container.name")
            forms == SwarmForms(name)
        IN  /\ forms # {} =>
                \E f \in forms : probe.out = f[1] \o <<"-">> \o f[2]
            /\ (forms = {} /\ label # <<>>) => probe.out = label
            /\ (forms = {} /\ label = <<>>) => probe.out = name
            /\ probe.arg.raw = sSwarmRaw => probe.out = sWeb2

\* C12 witness: /web.2.xyz labelled front resolved to web-2
C12_Witness ==
    /\ probe.fn = "buildContainerName"
    /\ probe.arg.raw = sSwarmRaw
    /\ MapGet(probe.arg.labels, "logger.container.name") = sFront
    /\ probe.out = sWeb2

\* the text between the first two slashes of an image, "" with fewer
GroupSegment(image) ==
    LET sl == {k \in 1..Len(image) : image[k] = "/"}
    IN  IF Cardinality(sl) < 2 THEN <<>>
        ELSE SubSeq(image, MinOf(sl) + 1, MinOf(sl \ {MinOf(sl)}) - 1)

\* C13: for every label map and image: the group is the group label if that
\* is present and non-empty, and otherwise the text the image holds between
\* two slashes, which is the empty string for an image with no such
\* segment. reg/sys/api:v1 gives sys and myorg/api:latest gives "".
C13_GroupPrecedence ==
    probe.fn = "buildGroupName" =>
        LET label == MapGet(probe.arg.labels, "logger.group.name")
            image == probe.arg.image
        IN  /\ label # <<>> => probe.out = label
            /\ label = <<>> => probe.out = GroupSegment(image)
            /\ (label = <<>> /\ image = imgApi) => probe.out = <<"s", "y", "s">>
            /\ (label = <<>> /\ image = imgWeb) => probe.out = <<>>

\* C13 witness: an unlabelled image with a group segment gave that segment
C13_Witness ==
    /\ probe.fn = "buildGroupName"
    /\ MapGet(probe.arg.labels, "logger.group.name") = <<>>
    /\ probe.arg.image = imgApi
    /\ probe.out = <<"s", "y", "s">>

\* C20: for one raw name (with a leading slash or without), one label map
\* and one image, the container listed in the snapshot and the raw event
\* from the feed get the same ContainerName, the same Group and the same
\* policy decision, and a second resolution of the same inputs gives what
\* the first gave.
C20_PathsAgree ==
    /\ probe.fn \in {"resolve", "resolveAgain"} =>
          probe.out.snapshot = probe.out.live
    /\ probe.fn = "resolveAgain" => probe.out = probe.first

\* C20 witness: a name with a leading slash, labelled, was resolved twice
\* and refused by the policy
C20_Witness ==
    /\ probe.fn = "resolveAgain"
    /\ probe.arg.raw = <<"/", "a">>
    /\ probe.arg.labels # EmptyMap
    /\ probe.out.live.ContainerName = <<"a">>
    /\ ~probe.out.live.allowed

(***************************************************************************)
(* A down transition of a plainly named container of a one-slash image.    *)
(***************************************************************************)
\* the positions of the slashes of s
Slashes(s) == {k \in 1..Len(s) : s[k] = "/"}

\* the raw event d is a container's down transition, its name a slash and
\* a name not of the swarm form, without logger labels, its image of the
\* form g/image:tag
PlainDown(d) ==
    /\ d.Type = "container"
    /\ d.Status \in {"die", "destroy", "stop", "pause"}
    /\ DOMAIN d.Attributes = {"name"}
    /\ Len(d.Attributes["name"]) > 1
    /\ d.Attributes["name"][1] = "/"
    /\ SwarmForms(Tail(d.Attributes["name"])) = {}
    /\ Cardinality(Slashes(d.From)) = 1
    /\ \E k \in 1..Len(d.From) : d.From[k] = ":" /\ k > MinOf(Slashes(d.From))

\* the g of an image g/image:tag
BeforeSlash(image) == SubSeq(image, 1, MinOf(Slashes(image)) - 1)

\* under a policy with no restrictions every such raw event received gets
\* an event, written or held for its write, with the name without its
\* slash, the group G gives for the image, and Status false
PlainDownEmits(G(_)) ==
    cfg = Config(<<>>, <<>>, <<>>, <<>>) =>
        \A k \in 1..Len(feedLog) :
            PlainDown(feedLog[k]) =>
                LET d == feedLog[k]
                    Good(ev) == /\ ev.ContainerName = Tail(d.Attributes["name"])
                                /\ ev.Group = G(d.From)
                                /\ ev.Status = FALSE
                IN  /\ \/ \E i \in 1..Len(LiveWrites) : LiveWrites[i].n = k
                       \/ k = Len(feedLog) /\ listener = "send"
                    /\ \A i \in 1..Len(LiveWrites) :
                          LiveWrites[i].n = k => Good(LiveWrites[i].ev)
                    /\ (k = Len(feedLog) /\ listener = "send") => Good(pending)

\* C14 as stated: the event of a down transition of /n with image
\* g/image:tag, under no restrictions, has ContainerName n, Group g and
\* Status false
C14_StopEventGroupFromImage == PlainDownEmits(BeforeSlash)

\* C14 amended: the event of a down transition of /n with image
\* g/image:tag, under no restrictions, has ContainerName n, the empty
\* Group and Status false
C14_StopEventEmptyGroup == PlainDownEmits(LAMBDA image : <<>>)

\* C14 witness: the stop of /worker with image group/worker:v1 was written
\* under no restrictions
C14_Witness ==
    /\ cfg = Config(<<>>, <<>>, <<>>, <<>>)
    /\ Len(LiveWrites) = 1
    /\ feedLog[LiveWrites[1].n].Status = "stop"
    /\ feedLog[LiveWrites[1].n].Attributes = [k \in {"name"} |-> <<"/">> \o sWorker]
    /\ feedLog[LiveWrites[1].n].From = imgWorker
    /\ LiveWrites[1].ev.ContainerName = sWorker

(***************************************************************************)
(* The listener's launch.                                                  *)
(***************************************************************************)
\* C15: the listener has been launched exactly when construction has
\* returned a notifier; it is launched in the step that ends construction,
\* with the whole listing handled, and never goes back to its start or to
\* its subscription; it subscribes at most once. Hence the snapshot phase
\* and the listener are never both at work, a snapshot write happens with
\* no listener and a live write with construction over.
C15_ListenerLaunchedOnce ==
    /\ [](listener # "idle" <=> ctor = "returned")
    /\ [](listener # "idle" => idx > Len(containers))
    /\ [](subscribeCalls <= 1)
    /\ [](subscribeCalls = 1 <=> (listener \notin {"idle", "subscribe"}
                                     \/ subscribeFailed))
    /\ [][/\ (listener = "idle" /\ listener' # "idle") =>
                /\ listener' = "subscribe"
                /\ ctor = "emit" /\ ctor' = "returned"
                /\ idx > Len(containers)
          /\ listener # "idle" => listener' # "idle"
          /\ listener \notin {"idle", "subscribe"} => listener' # "subscribe"
          /\ Len(written') > Len(written) =>
                IF written'[Len(written')].src = "snapshot"
                THEN ctor = "emit" /\ listener = "idle"
                ELSE ctor = "returned" /\ listener = "send"]_vars

\* C15 witness: after a snapshot write the listener, launched and
\* subscribed once, has written a live event
C15_Witness ==
    /\ ctor = "returned"
    /\ subscribeCalls = 1
    /\ Len(SnapshotWrites) > 0
    /\ Len(LiveWrites) > 0
    /\ listener = "recv"

(***************************************************************************)
(* The snapshot's handling of what the listing holds.                      *)
(***************************************************************************)
\* C16: name resolution, group resolution and the policy decision complete
\* for every listed container, one with no names included, and for every
\* raw event: neither path aborts
C16_ResolutionNeverFails ==
    /\ proc # "panicked"
    /\ ctor # "panicked"

\* C17: the timestamp of every snapshot event is the listed container's
\* creation time taken as seconds after the epoch, with zero nanoseconds
C17_SnapshotTimestamp ==
    \A i \in 1..Len(SnapshotWrites) :
        SnapshotWrites[i].ev.TS =
            [sec |-> containers[SnapshotWrites[i].n].Created, nsec |-> 0]

(***************************************************************************)
(* The window between the listing and the subscription: containers change  *)
(* state while emitRunningContainers runs and until AddEventListener has   *)
(* registered the listener's channel, and the docker client hands a        *)
(* listener only what happens after its registration.                      *)
(***************************************************************************)
\* the most transitions in the window
MaxMissed == 1

\* a container that is not in the listing starts
eStartNew == [Type |-> "container", Status |-> "start", ID |-> 5,
              Attributes |-> [k \in {"name"} |-> <<"/", "n", "e", "w">>],
              From |-> imgApi, Time |-> 4000, TimeNano |-> 0]

WindowEvents == {eStartNew, eStopWorker}

\* lines 132-92: the transition d happens with the listing taken and no
\* listener registered; nobody is told
MissedTransition(d) ==
    /\ proc = "running"
    /\ listCalls = 1
    /\ ~listFailed
    /\ feed = "none"
    /\ ~subscribeFailed
    /\ Len(missed) < MaxMissed
    /\ missed' = Append(missed, d)
    /\ UNCHANGED <<cfg, proc, ctor, ctorErr, res, eventsCh, containers, idx,
                   listener, feed, pending, feedLog, written, delivered,
                   listCalls, subscribeCalls, subscribeFailed, listFailed,
                   probe>>

WindowNext ==
    \/ Step(ListenerListings, RawEvents, MaxFeed)
    \/ \E d \in WindowEvents : Len(missed) < MaxMissed /\ MissedTransition(d)

SpecWindow == Init /\ [][WindowNext]_vars

\* the container identifiers of the listing and of the raw events received
KnownIDs ==
    {containers[i].ID : i \in 1..Len(containers)}
        \cup {feedLog[i].ID : i \in 1..Len(feedLog)}

\* C18: the feed is subscribed only with the listing taken and the whole
\* snapshot written; every event written is the event of a container of
\* the listing or of a raw event received from the feed; a transition in
\* the window between listing and subscription changes neither what was
\* written nor what the listener received, and a container known only from
\* such a transition has no event.
C18_WindowUnreported ==
    /\ [](feed # "none" =>
             /\ listCalls = 1
             /\ idx > Len(containers)
             /\ ctor = "returned")
    /\ [](\A i \in 1..Len(written) :
             LET w == written[i]
             IN  IF w.src = "snapshot"
                 THEN /\ w.n \in 1..Len(containers)
                      /\ w.ev = SnapshotEvent(containers[w.n])
                 ELSE /\ w.n \in 1..Len(feedLog)
                      /\ w.ev = LiveEvent(feedLog[w.n]))
    /\ [](\A k \in 1..Len(missed) :
             missed[k].ID \notin KnownIDs =>
                 \A i \in 1..Len(written) :
                     written[i].ev.ContainerID # missed[k].ID)
    /\ [][missed' # missed =>
             /\ written' = written
             /\ eventsCh' = eventsCh
             /\ feedLog' = feedLog
             /\ pending' = pending]_vars

\* C18 witness: a container started in the window, the listener subscribed
\* and wrote an event since, and the container has none
C18_Witness ==
    /\ Len(missed) > 0
    /\ missed[1] = eStartNew
    /\ isAllowed(res, LiveEvent(eStartNew).ContainerName)
    /\ feed = "open"
    /\ Len(LiveWrites) > 0
    /\ \A i \in 1..Len(written) : written[i].ev.ContainerID # 5

(***************************************************************************)
(* Delivery of the live events to a consumer that keeps reading.           *)
(***************************************************************************)
\* the consumer has read the event of the k-th raw event received
DeliveredLive(k) ==
    \E j \in 1..Len(delivered) : written[j].src = "live" /\ written[j].n = k

\* no raw event has two events, and what the consumer has read is the
\* beginning of what was written
AtMostOnce ==
    /\ \A k \in 1..Len(feedLog) : Count(LiveWrites, LAMBDA w : w.n = k) <= 1
    /\ Len(delivered) <= Len(written)
    /\ \A j \in 1..Len(delivered) : delivered[j] = written[j].ev

\* C19 (as claimed): with the consumer reading, every due raw event
\* received is eventually read by the consumer, as one event.
C19_DueEventuallyDelivered ==
    /\ WF_vars(ConsumerRead) =>
          \A k \in 1..MaxFeed :
              (Len(feedLog) >= k /\ Due(feedLog[k])) ~> DeliveredLive(k)
    /\ []AtMostOnce

\* C19 (amended): the same, provided the feed never terminates (its end
\* ends the process, and what the channel still holds with it).
C19_DueDeliveredWhileFeedLives ==
    /\ ([](feed # "closed") /\ WF_vars(ConsumerRead)) =>
          \A k \in 1..MaxFeed :
              (Len(feedLog) >= k /\ Due(feedLog[k])) ~> DeliveredLive(k)
    /\ []AtMostOnce

\* C19 witness: the consumer has read the event of a due raw event, after
\* the snapshot's, with the feed alive
C19_Witness ==
    /\ Len(feedLog) > 0
    /\ Due(feedLog[1])
    /\ DeliveredLive(1)
    /\ Len(delivered) > 1
    /\ feed = "open"

====
